---- MODULE Spec2Model ----
(***************************************************************************)
(* Model of video_tracker.py: the CLI loop of main, VideoTracker's         *)
(* process_video (one step per stage of its frame loop) and                *)
(* draw_annotations.  The detector, the tracker, the video source and the  *)
(* video sink are the environment: their outcomes are chosen               *)
(* nondeterministically where the code calls them.                         *)
(***************************************************************************)
EXTENDS Integers, Sequences, FiniteSets, TLC

(* ------------------------------ bounds -------------------------------- *)

\* videos on the command line of one run
MaxVideos == 2
\* frames a source yields in a "busy" scene (any subset of FrameTemplate per frame)
MaxBusyFrames == 2
\* frames a source yields in a "long" scene (one moving object in every frame)
MaxFrames == 32
\* times the tracker may lose an object and give it a fresh id, per run
MaxLost == 1

(* --------------------------- program constants ------------------------ *)

\* len(track_history[track_id]) > 30 / [-30:]
TrajCap == 30

\* a catalog with one more key: class 99 listed as a car
WideCatalog == (0 :> "person") @@ (2 :> "car") @@ (3 :> "motorcycle")
               @@ (5 :> "bus") @@ (7 :> "truck") @@ (99 :> "car")

\* self.target_classes
target_classes == (0 :> "person") @@ (2 :> "car") @@ (3 :> "motorcycle")
                  @@ (5 :> "bus") @@ (7 :> "truck")

\* self.colors
colors == [person |-> <<0, 255, 0>>, car |-> <<255, 0, 0>>,
           motorcycle |-> <<0, 0, 255>>, bus |-> <<255, 255, 0>>,
           truck |-> <<255, 0, 255>>]

(* ------------------------------ strings ------------------------------- *)
\* A string is a sequence of one-character strings.

DotMp4 == <<".", "m", "p", "4">>
DotAvi == <<".", "a", "v", "i">>
TrackedSuffix == <<"_", "t", "r", "a", "c", "k", "e", "d">>
TrackedMp4 == TrackedSuffix \o DotMp4
OutputDir == <<"o", "u", "t", "p", "u", "t">>

\* str.replace(old, new): every non-overlapping occurrence, left to right
RECURSIVE Replace(_, _, _)
Replace(s, old, new) ==
    IF Len(s) < Len(old) THEN s
    ELSE IF SubSeq(s, 1, Len(old)) = old
         THEN new \o Replace(SubSeq(s, Len(old) + 1, Len(s)), old, new)
         ELSE <<Head(s)>> \o Replace(Tail(s), old, new)

\* the last index of character c in s, 0 when absent
LastIndexOf(s, c) ==
    LET hits == {i \in 1..Len(s) : s[i] = c}
    IN IF hits = {} THEN 0 ELSE CHOOSE i \in hits : \A j \in hits : j <= i

\* the final path component
BaseName(s) == SubSeq(s, LastIndexOf(s, "/") + 1, Len(s))

\* pathlib's Path(s).stem: the final component without its last suffix
Stem(s) ==
    LET b == BaseName(s)
        d == LastIndexOf(b, ".")
    IN IF d <= 1 \/ d = Len(b) THEN b ELSE SubSeq(b, 1, d - 1)

\* output_path = video_path.replace('.mp4', '_tracked.mp4')
DefaultOutputPath(video_path) == Replace(video_path, DotMp4, TrackedMp4)

\* output_dir / f"{Path(video_path).stem}_tracked.mp4"
MainOutputPath(video_path) == OutputDir \o <<"/">> \o Stem(video_path) \o TrackedMp4

\* the i-th default video of the CLI: "video<i>.mp4"
Digit(i) == <<"0", "1", "2", "3", "4", "5", "6", "7", "8", "9">>[i + 1]
ArgVideo(i) == <<"v", "i", "d", "e", "o", Digit(i)>> \o DotMp4

\* file names handed to process_video directly
DirectNames == { <<"a">> \o DotMp4,
                 <<"a">> \o DotAvi,
                 <<"a">> \o DotMp4 \o DotMp4,
                 <<"d">> \o DotMp4 \o <<"/", "a">> \o DotMp4 }

(* ----------------------------- detections ----------------------------- *)

\* The objects a busy scene may show in a frame, in the detector's order.  obj is
\* the physical object (what the tracker follows); 99 is a class outside the catalog.
FrameTemplate ==
    << [obj |-> 1, class_id |-> 0,  box |-> <<10, 10, 13, 15>>],
       [obj |-> 2, class_id |-> 2,  box |-> <<40, 20, 48, 27>>],
       [obj |-> 3, class_id |-> 99, box |-> <<70, 30, 74, 34>>],
       [obj |-> 4, class_id |-> 2,  box |-> <<90, 50, 95, 53>>] >>

\* a raw detection of template entry t in frame k: the object drifts with k
RawDetection(t, k) ==
    [obj |-> t.obj, class_id |-> t.class_id,
     xyxy |-> <<t.box[1] + k, t.box[2], t.box[3] + k, t.box[4]>>]

RECURSIVE Pick(_, _, _)
\* the entries of seq whose index is in keep, in order
Pick(seq, keep, i) ==
    IF i > Len(seq) THEN <<>>
    ELSE (IF i \in keep THEN <<seq[i]>> ELSE <<>>) \o Pick(seq, keep, i + 1)

\* what the detector may return for frame k of a scene
RawChoices(scn, k) ==
    IF scn = "long"
    THEN { << RawDetection(FrameTemplate[2], k) >> }
    ELSE { Pick([i \in 1..Len(FrameTemplate) |-> RawDetection(FrameTemplate[i], k)], keep, 1)
           : keep \in SUBSET (1..Len(FrameTemplate)) }

\* frames the source of a scene can yield
FrameLimit(scn) == IF scn = "long" THEN MaxFrames ELSE MaxBusyFrames

(* ------------------------- pipeline operators ------------------------- *)

\* detections[np.isin(detections.class_id, list(self.target_classes.keys()))]
RECURSIVE FilterTargets(_)
FilterTargets(dets) ==
    IF dets = <<>> THEN <<>>
    ELSE (IF Head(dets).class_id \in DOMAIN target_classes THEN <<Head(dets)>> ELSE <<>>)
         \o FilterTargets(Tail(dets))

\* sv.ByteTrack(): no object followed, no id issued
FreshTracker == [ids |-> <<>>, count |-> 0]

\* self.tracker.update_with_detections(detections): every detection comes back with
\* a tracker_id; an object the tracker follows (and has not lost) keeps its id, any
\* other gets the next id.  lose: the followed objects the tracker loses in this call.
RECURSIVE TrackerUpdate(_, _, _)
TrackerUpdate(tr, dets, lose) ==
    IF dets = <<>> THEN [tracker |-> tr, out |-> <<>>]
    ELSE LET d == Head(dets)
             kept == d.obj \in DOMAIN tr.ids /\ d.obj \notin lose
             id == IF kept THEN tr.ids[d.obj] ELSE tr.count + 1
             tr1 == IF kept THEN tr
                    ELSE [ids |-> (d.obj :> id) @@ tr.ids, count |-> id]
             rest == TrackerUpdate(tr1, Tail(dets), lose)
         IN [tracker |-> rest.tracker,
             out |-> <<[obj |-> d.obj, class_id |-> d.class_id, xyxy |-> d.xyxy,
                        tracker_id |-> id]>> \o rest.out]

\* center = ((x1 + x2) // 2, (y1 + y2) // 2)
Center(xyxy) == <<(xyxy[1] + xyxy[3]) \div 2, (xyxy[2] + xyxy[4]) \div 2>>

\* the oldest TrajCap points: what [:30] in place of [-30:] would keep
KeepOldest(points) ==
    IF Len(points) > TrajCap THEN SubSeq(points, 1, TrajCap) ELSE points

\* if len(track_history[track_id]) > 30: track_history[track_id] = track_history[track_id][-30:]
LimitTrajectory(points) ==
    IF Len(points) > TrajCap
    THEN SubSeq(points, Len(points) - TrajCap + 1, Len(points))
    ELSE points

\* track_history after the center of one detection is recorded for track_id
Record(history, track_id, center) ==
    LET old == IF track_id \in DOMAIN history THEN history[track_id] ELSE <<>>
    IN (track_id :> LimitTrajectory(Append(old, center))) @@ history

\* A frame buffer is [src: the number of the source frame, marks: what was drawn].
\* bufs holds the buffer cap.read() returned ("read") and the one frame.copy()
\* allocates ("copy"); a frame variable of the code is the name of its buffer.

\* annotated_frame = frame, with no copy: both names share one buffer
NoCopy(bufs) == [bufs |-> bufs, ref |-> "read"]

\* annotated_frame = frame.copy()
FrameCopy(bufs) == [bufs |-> [bufs EXCEPT !.copy = bufs.read], ref |-> "copy"]

\* cv2.rectangle / cv2.putText / cv2.polylines on the buffer named ref
DrawOn(bufs, ref, mark) ==
    [bufs EXCEPT ![ref] = [@ EXCEPT !.marks = Append(@, mark)]]

\* the body of the for loop of draw_annotations, from detection i on
RECURSIVE DrawLoop(_, _, _, _, _)
DrawLoop(bufs, ref, dets, history, i) ==
    IF i > Len(dets) THEN [bufs |-> bufs, ref |-> ref, history |-> history]
    ELSE LET d == dets[i]
         IN IF d.class_id \notin DOMAIN target_classes
            THEN DrawLoop(bufs, ref, dets, history, i + 1)
            ELSE LET class_name == target_classes[d.class_id]
                     color == IF class_name \in DOMAIN colors THEN colors[class_name]
                              ELSE <<255, 255, 255>>
                     b1 == DrawOn(bufs, ref, <<"rectangle", d.xyxy, color>>)
                     b2 == DrawOn(b1, ref, <<"label", class_name, d.tracker_id>>)
                     h1 == Record(history, d.tracker_id, Center(d.xyxy))
                     b3 == IF Len(h1[d.tracker_id]) > 1
                           THEN DrawOn(b2, ref, <<"polylines", h1[d.tracker_id], color>>)
                           ELSE b2
                 IN DrawLoop(b3, ref, dets, h1, i + 1)

\* draw_annotations(frame, detections, track_history): the returned frame (ref), the
\* buffers and track_history as the call leaves them
draw_annotations(bufs, dets, history) ==
    LET c == FrameCopy(bufs)
    IN IF Len(dets) = 0 THEN [bufs |-> c.bufs, ref |-> c.ref, history |-> history]
       ELSE DrawLoop(c.bufs, c.ref, dets, history, 1)

\* detection_stats = {class_name: 0 for class_name in self.target_classes.values()}
InitialStats == [name \in {target_classes[c] : c \in DOMAIN target_classes} |-> 0]

\* the counter is set to one, not incremented: "= 1" in place of "+= 1"
RECURSIVE AccumulateOverwrite(_, _)
AccumulateOverwrite(stats, dets) ==
    IF dets = <<>> THEN stats
    ELSE LET c == Head(dets).class_id
         IN AccumulateOverwrite(
                IF c \in DOMAIN target_classes
                THEN [stats EXCEPT ![target_classes[c]] = 1] ELSE stats,
                Tail(dets))

\* for class_id in detections.class_id: if class_id in self.target_classes: ... += 1
RECURSIVE Accumulate(_, _)
Accumulate(stats, dets) ==
    IF dets = <<>> THEN stats
    ELSE LET c == Head(dets).class_id
         IN Accumulate(
                IF c \in DOMAIN target_classes
                THEN [stats EXCEPT ![target_classes[c]] = @ + 1] ELSE stats,
                Tail(dets))

(* -------------------------------- state -------------------------------- *)

VARIABLES
    videos,           \* args.videos, or the one path of a direct call
    scene,            \* what the sources of this run show: "busy" or "long"
    main_pc,          \* the caller: "loop", "in_call", "done", "aborted"
    vi,               \* the position of main's for loop in videos
    pc,               \* process_video: "idle", "entry", "read", "detect", "filter",
                      \* "track", "annotate", "accumulate", "write", "returned", "raised"
    video_path,       \* process_video's video_path
    output_path,      \* process_video's output_path
    output_default,   \* process_video was called with output_path=None
    result,           \* what process_video returned
    tracker,          \* self.tracker
    lost,             \* how often the tracker has lost an object in this run
    detection_stats,  \* process_video's detection_stats
    track_history,    \* process_video's track_history
    frame_count,      \* process_video's frame_count
    bufs,             \* the frame buffers "read" and "copy"
    annotated_frame,  \* the buffer process_video's annotated_frame names
    detections,       \* process_video's detections
    sink_opened,      \* whether cv2.VideoWriter opened the output
    sink,             \* the source frame numbers of the frames in the output
    log,              \* per video, the messages printed about it
    recorded,         \* history: per track id, every center recorded in this video
    raw_seen,         \* history: raw detections in this video, of a catalog class and other
    all_tracked       \* history: the class ids the tracker returned in this video

vars == <<videos, scene, main_pc, vi, pc, video_path, output_path, output_default,
          result, tracker, lost, detection_stats, track_history, frame_count, bufs,
          annotated_frame, detections, sink_opened, sink, log, recorded,
          raw_seen, all_tracked>>

runVars == <<videos, scene>>
locals == <<detection_stats, track_history, frame_count, bufs, annotated_frame,
            detections, sink_opened, sink>>
histVars == <<recorded, raw_seen, all_tracked>>

NoFrame == [src |-> 0, marks |-> <<>>]

NoneSeen == [catalog |-> 0, other |-> 0]

\* the values of process_video's locals while no call is active
NoCall ==
    /\ pc' = "idle"
    /\ video_path' = <<>>
    /\ output_path' = <<>>
    /\ output_default' = FALSE
    /\ result' = FALSE
    /\ detection_stats' = InitialStats
    /\ track_history' = <<>>
    /\ frame_count' = 0
    /\ bufs' = [read |-> NoFrame, copy |-> NoFrame]
    /\ annotated_frame' = "read"
    /\ detections' = <<>>
    /\ sink_opened' = FALSE
    /\ sink' = <<>>
    /\ recorded' = <<>>
    /\ raw_seen' = NoneSeen
    /\ all_tracked' = <<>>

InitCommon ==
    /\ main_pc = "loop"
    /\ vi = 1
    /\ pc = "idle"
    /\ video_path = <<>>
    /\ output_path = <<>>
    /\ output_default = FALSE
    /\ result = FALSE
    /\ tracker = FreshTracker
    /\ lost = 0
    /\ detection_stats = InitialStats
    /\ track_history = <<>>
    /\ frame_count = 0
    /\ bufs = [read |-> NoFrame, copy |-> NoFrame]
    /\ annotated_frame = "read"
    /\ detections = <<>>
    /\ sink_opened = FALSE
    /\ sink = <<>>
    /\ recorded = <<>>
    /\ raw_seen = NoneSeen
    /\ all_tracked = <<>>

\* python video_tracker.py --videos video1.mp4 ... : tracker = VideoTracker(args.model)
Init ==
    /\ \E n \in 1..MaxVideos : videos = [i \in 1..n |-> ArgVideo(i)]
    /\ scene = "busy"
    /\ log = [i \in 1..Len(videos) |-> {}]
    /\ InitCommon

\* VideoTracker(model).process_video(name): a direct call, no output_path
InitDirect ==
    /\ \E name \in DirectNames : videos = <<name>>
    /\ scene \in {"busy", "long"}
    /\ log = [i \in 1..Len(videos) |-> {}]
    /\ InitCommon

Say(tag) == log' = [log EXCEPT ![vi] = @ \cup {tag}]

(* ------------------------------- main --------------------------------- *)

\* for video_path in args.videos: if os.path.exists(video_path): ... else: ...
MainIter ==
    /\ main_pc = "loop" /\ pc = "idle" /\ vi <= Len(videos)
    /\ \E exists \in BOOLEAN :
         IF exists
         THEN /\ main_pc' = "in_call"
              /\ pc' = "entry"
              /\ video_path' = videos[vi]
              /\ output_path' = MainOutputPath(videos[vi])
              /\ output_default' = FALSE
              /\ UNCHANGED <<vi, log>>
         ELSE /\ Say("main: file does not exist")
              /\ vi' = vi + 1
              /\ UNCHANGED <<main_pc, pc, video_path, output_path, output_default>>
    /\ UNCHANGED <<runVars, result, tracker, lost, locals, histVars>>

\* success = tracker.process_video(...); if not success: print(...)
MainAfterCall ==
    /\ main_pc = "in_call" /\ pc = "returned"
    /\ IF result THEN UNCHANGED log ELSE Say("main: processing failed")
    /\ main_pc' = "loop"
    /\ vi' = vi + 1
    /\ NoCall
    /\ UNCHANGED <<runVars, tracker, lost>>

\* the for loop is exhausted: print the closing summary
MainFinish ==
    /\ main_pc = "loop" /\ pc = "idle" /\ vi > Len(videos)
    /\ main_pc' = "done"
    /\ UNCHANGED <<runVars, vi, pc, video_path, output_path, output_default, result,
                   tracker, lost, locals, log, histVars>>

\* a caller's tracker.process_video(video_path)
DirectCall ==
    /\ main_pc = "loop" /\ pc = "idle" /\ vi = 1
    /\ main_pc' = "in_call"
    /\ pc' = "entry"
    /\ video_path' = videos[vi]
    /\ output_path' = <<>>
    /\ output_default' = TRUE
    /\ UNCHANGED <<runVars, vi, result, tracker, lost, locals, log, histVars>>

\* the direct call has returned
DirectReturn ==
    /\ main_pc = "in_call" /\ pc = "returned"
    /\ main_pc' = "done"
    /\ UNCHANGED <<runVars, vi, pc, video_path, output_path, output_default, result,
                   tracker, lost, locals, log, histVars>>

(* --------------------------- process_video ---------------------------- *)

callVars == <<video_path, output_default>>

\* ghost: the centers draw_annotations records for dets, appended per track id
RECURSIVE RecordAll(_, _)
RecordAll(rec, dets) ==
    IF dets = <<>> THEN rec
    ELSE LET d == Head(dets)
             old == IF d.tracker_id \in DOMAIN rec THEN rec[d.tracker_id] ELSE <<>>
         IN RecordAll(
                IF d.class_id \in DOMAIN target_classes
                THEN (d.tracker_id :> Append(old, Center(d.xyxy))) @@ rec ELSE rec,
                Tail(dets))

\* lines 68-103: the checks of the source, the output writer, the fresh statistics
PVOpen ==
    /\ pc = "entry"
    /\ \E exists \in BOOLEAN, opened \in BOOLEAN, writer_ok \in BOOLEAN :
         IF ~exists
         THEN /\ Say("process_video: file does not exist")
              /\ result' = FALSE
              /\ pc' = "returned"
              /\ UNCHANGED <<output_path, locals, histVars>>
         ELSE IF ~opened
         THEN /\ Say("process_video: cannot open the video file")
              /\ result' = FALSE
              /\ pc' = "returned"
              /\ UNCHANGED <<output_path, locals, histVars>>
         ELSE /\ output_path' = IF output_default THEN DefaultOutputPath(video_path)
                                ELSE output_path
              /\ sink_opened' = writer_ok
              /\ sink' = <<>>
              /\ detection_stats' = InitialStats
              /\ track_history' = <<>>
              /\ frame_count' = 0
              /\ pc' = "read"
              /\ recorded' = <<>>
              /\ raw_seen' = NoneSeen
              /\ all_tracked' = <<>>
              /\ UNCHANGED <<log, result, bufs, annotated_frame, detections>>
    /\ UNCHANGED <<runVars, main_pc, vi, callVars, tracker, lost>>

\* ret, frame = cap.read() with ret true; frame_count += 1
ReadFrame ==
    /\ pc = "read"
    /\ frame_count < FrameLimit(scene)
    /\ frame_count' = frame_count + 1
    /\ bufs' = [bufs EXCEPT !.read = [src |-> frame_count + 1, marks |-> <<>>]]
    /\ pc' = "detect"
    /\ UNCHANGED <<runVars, main_pc, vi, callVars, output_path, result, tracker, lost,
                   detection_stats, track_history, annotated_frame, detections,
                   sink_opened, sink, log, histVars>>

\* cap.read() with ret false: break, release, print the completion and the
\* statistics, return True
Finalize ==
    /\ pc = "read"
    /\ Say("process_video: completed")
    /\ result' = TRUE
    /\ pc' = "returned"
    /\ UNCHANGED <<runVars, main_pc, vi, callVars, output_path, tracker, lost, locals,
                   histVars>>

\* results = self.model(frame); detections = sv.Detections.from_ultralytics(results[0])
Detect ==
    /\ pc = "detect"
    /\ \E raw \in RawChoices(scene, frame_count) :
         /\ detections' = raw
         /\ raw_seen' =
              LET hits == {i \in 1..Len(raw) : raw[i].class_id \in {0, 2, 3, 5, 7}}
              IN [catalog |-> raw_seen.catalog + Cardinality(hits),
                  other |-> raw_seen.other + Len(raw) - Cardinality(hits)]
    /\ pc' = "filter"
    /\ UNCHANGED <<runVars, main_pc, vi, callVars, output_path, result, tracker, lost,
                   detection_stats, track_history, frame_count, bufs, annotated_frame,
                   sink_opened, sink, log, recorded, all_tracked>>

\* self.model(frame) raises: nothing in process_video or main catches it
DetectRaise ==
    /\ pc = "detect"
    /\ pc' = "raised"
    /\ main_pc' = "aborted"
    /\ UNCHANGED <<runVars, vi, callVars, output_path, result, tracker, lost, locals,
                   log, histVars>>

\* mask = np.isin(...); detections = detections[mask]
Filter ==
    /\ pc = "filter"
    /\ detections' = FilterTargets(detections)
    /\ pc' = "track"
    /\ UNCHANGED <<runVars, main_pc, vi, callVars, output_path, result, tracker, lost,
                   detection_stats, track_history, frame_count, bufs, annotated_frame,
                   sink_opened, sink, log, histVars>>

\* detections = self.tracker.update_with_detections(detections)
Track ==
    /\ pc = "track"
    /\ \E lose \in SUBSET {detections[i].obj : i \in 1..Len(detections)} :
         /\ lose \subseteq DOMAIN tracker.ids
         /\ lost + Cardinality(lose) <= MaxLost
         /\ LET r == TrackerUpdate(tracker, detections, lose)
            IN /\ tracker' = r.tracker
               /\ detections' = r.out
               /\ all_tracked' = all_tracked \o [i \in 1..Len(r.out) |-> [class_id |-> r.out[i].class_id]]
         /\ lost' = lost + Cardinality(lose)
    /\ pc' = "annotate"
    /\ UNCHANGED <<runVars, main_pc, vi, callVars, output_path, result,
                   detection_stats, track_history, frame_count, bufs, annotated_frame,
                   sink_opened, sink, log, recorded, raw_seen>>

\* annotated_frame = self.draw_annotations(frame, detections, track_history)
Annotate ==
    /\ pc = "annotate"
    /\ LET r == draw_annotations(bufs, detections, track_history)
       IN /\ bufs' = r.bufs
          /\ annotated_frame' = r.ref
          /\ track_history' = r.history
    /\ recorded' = RecordAll(recorded, detections)
    /\ pc' = "accumulate"
    /\ UNCHANGED <<runVars, main_pc, vi, callVars, output_path, result, tracker, lost,
                   detection_stats, frame_count, detections, sink_opened, sink, log,
                   raw_seen, all_tracked>>

\* for class_id in detections.class_id: ... detection_stats[...] += 1
AccumulateStats ==
    /\ pc = "accumulate"
    /\ detection_stats' = Accumulate(detection_stats, detections)
    /\ pc' = "write"
    /\ UNCHANGED <<runVars, main_pc, vi, callVars, output_path, result, tracker, lost,
                   track_history, frame_count, bufs, annotated_frame, detections,
                   sink_opened, sink, log, histVars>>

\* out.write(annotated_frame): a writer that did not open drops the frame
Write ==
    /\ pc = "write"
    /\ sink' = IF sink_opened THEN Append(sink, bufs[annotated_frame].src) ELSE sink
    /\ pc' = "read"
    /\ UNCHANGED <<runVars, main_pc, vi, callVars, output_path, result, tracker, lost,
                   detection_stats, track_history, frame_count, bufs, annotated_frame,
                   detections, sink_opened, log, histVars>>

ProcessVideo ==
    \/ PVOpen \/ ReadFrame \/ Finalize \/ Detect \/ DetectRaise \/ Filter \/ Track
    \/ Annotate \/ AccumulateStats \/ Write

Next == MainIter \/ MainAfterCall \/ MainFinish \/ ProcessVideo

NextDirect == DirectCall \/ DirectReturn \/ ProcessVideo

Spec == Init /\ [][Next]_vars

SpecDirect == InitDirect /\ [][NextDirect]_vars

(* ------------------------------- claims -------------------------------- *)

Min(a, b) == IF a <= b THEN a ELSE b

LastN(s, n) == SubSeq(s, Len(s) - n + 1, Len(s))

RECURSIVE SumOver(_, _)
\* the sum of f[x] over x in S
SumOver(f, S) ==
    IF S = {} THEN 0
    ELSE LET x == CHOOSE y \in S : TRUE IN f[x] + SumOver(f, S \ {x})

TotalCount(stats) == SumOver(stats, DOMAIN stats)

TotalPoints(h) == SumOver([id \in DOMAIN h |-> Len(h[id])], DOMAIN h)

\* process_video is between two frames, or has returned
FrameDone == pc \in {"read", "returned"}

\* C1: after every draw_annotations, each stored trajectory holds at most 30 points
\* and is exactly the last min(n, 30) of the n centers recorded for its track id, in
\* the order they were recorded.
TrajectoryIsLastCenters ==
    /\ DOMAIN track_history = DOMAIN recorded
    /\ \A id \in DOMAIN track_history :
         /\ Len(track_history[id]) <= 30
         /\ track_history[id] = LastN(recorded[id], Min(Len(recorded[id]), 30))

\* C1 witness: a track id with more than 30 recorded centers, its oldest dropped
TrajectoryWasTrimmed ==
    \E id \in DOMAIN recorded :
        /\ Len(recorded[id]) > 30
        /\ Len(track_history[id]) = 30
        /\ track_history[id][1] # recorded[id][1]

\* main has reached video i of the list: it passed it, or is working on it
Attempted(i) == i < vi \/ (i = vi /\ pc # "idle")

\* C2: no failure inside one video ends the run: whenever a video of the list has
\* not been attempted, main is still running and will come to it.
EveryVideoAttempted ==
    (\E i \in 1..Len(videos) : ~Attempted(i)) => main_pc \in {"loop", "in_call"}

\* C3: a process_video whose output writer did not open never returns True and
\* never prints the completion message (frame_count > 0: the call got past the
\* creation of the writer and into the frame loop).
SinkFailureIsReported ==
    (pc = "returned" /\ frame_count > 0 /\ ~sink_opened)
        => (result = FALSE /\ "process_video: completed" \notin log[vi])

\* C4: a source that opens but yields no frame ends Failed: process_video does not
\* return True (Finalized) with no frame read.
NoFrameIsFailure ==
    (pc = "returned" /\ result = TRUE) => frame_count > 0

\* C5: every video starts from fresh state: at the start of its frame loop the
\* trajectory store is empty, every counter is zero and the tracker follows nothing.
EachVideoStartsFresh ==
    (pc = "read" /\ frame_count = 0)
        => /\ track_history = <<>>
           /\ detection_stats = InitialStats
           /\ tracker = FreshTracker

\* C6: the statistics keys are exactly the catalog's class names, and a raw detection
\* of a class outside {0,2,3,5,7} adds to no counter and to no trajectory: counters
\* and trajectory points never exceed the raw detections of catalog classes, and
\* equal them once a frame is done.
OnlyCatalogClassesCount ==
    /\ DOMAIN detection_stats = {"person", "car", "motorcycle", "bus", "truck"}
    /\ TotalCount(detection_stats) <= raw_seen.catalog
    /\ TotalPoints(track_history) <= raw_seen.catalog
    /\ TotalPoints(recorded) <= raw_seen.catalog
    /\ FrameDone => /\ TotalCount(detection_stats) = raw_seen.catalog
                    /\ TotalPoints(recorded) = raw_seen.catalog

\* C6 witness: frames with detections inside and outside the catalog are done
UnknownClassWasSeen ==
    /\ pc = "read" /\ frame_count >= 2
    /\ raw_seen.other >= 2 /\ raw_seen.catalog >= 2

\* the counters agree with everything the tracker has returned in this video
StatsAreTotals ==
    /\ detection_stats = Accumulate(InitialStats, all_tracked)
    /\ \A c \in DOMAIN target_classes :
         detection_stats[target_classes[c]] =
             Cardinality({i \in 1..Len(all_tracked) : all_tracked[i].class_id = c})

\* C7: accumulating frame after frame gives the counters that accumulating all the
\* frames' tracked detections at once gives, each counter is the number of tracked
\* detections of its class so far, and within a video no counter ever decreases.
StatsAreAdditive ==
    /\ [](pc \notin {"annotate", "accumulate"} => StatsAreTotals)
    /\ [][pc \notin {"entry", "returned"}
            => \A n \in DOMAIN detection_stats :
                   detection_stats'[n] >= detection_stats[n]]_vars

\* C7 witness: several frames are accumulated, one class counted at least three times
StatsWereAccumulated ==
    /\ pc = "read" /\ frame_count >= 2
    /\ detection_stats["car"] >= 3 /\ detection_stats["person"] >= 1

\* C8: draw_annotations never changes the frame it is given; with zero detections
\* the frame it returns equals that input and track_history is left as it was.
AnnotateKeepsInput ==
    [][(pc = "annotate" /\ pc' = "accumulate")
         => /\ bufs'.read = bufs.read
            /\ Len(detections) = 0
                 => /\ bufs'[annotated_frame'] = bufs.read
                    /\ track_history' = track_history]_vars

\* C8 witness: draw_annotations has returned from a call with zero detections, made
\* while trajectories were stored
AnnotatedEmptyFrame ==
    /\ pc = "accumulate" /\ Len(detections) = 0
    /\ track_history # <<>>
    /\ bufs[annotated_frame] = bufs.read

\* os.path.splitext: the index of the dot that starts the extension, 0 when none
ExtensionDot(name) ==
    LET slash == LastIndexOf(name, "/")
        d == LastIndexOf(name, ".")
    IN IF d > slash + 1 THEN d ELSE 0

\* name with suffix put once, immediately before its extension
SuffixedName(name, suffix) ==
    LET d == ExtensionDot(name)
    IN IF d = 0 THEN name \o suffix
       ELSE SubSeq(name, 1, d - 1) \o suffix \o SubSeq(name, d, Len(name))

\* C9: called with no output path, process_video writes to the input file name with
\* "_tracked" appended once, immediately before the extension.
DefaultOutputIsSuffixed ==
    (output_default /\ pc \notin {"idle", "entry"} /\ output_path # <<>>)
        => output_path = SuffixedName(video_path, TrackedSuffix)

\* C10: when process_video has finalized, the output holds exactly the frames read,
\* one per frame, in read order.
EveryFrameReadIsWritten ==
    (pc = "returned" /\ result = TRUE) => sink = [i \in 1..frame_count |-> i]

====
